---- MODULE Spec2Model ----
(***************************************************************************)
(* A model of hggit/util.py: the git-ssh location classifier, the ssh      *)
(* argument-injection guard, the bookmark update, the text/bytes           *)
(* normaliser, the lookup helper and the .hgsub / .hgsubstate codecs.      *)
(*                                                                         *)
(* A Python str is a sequence of one-character strings; a Python bytes     *)
(* value is a sequence of integers 0..255.                                 *)
(***************************************************************************)
EXTENDS Integers, Sequences, FiniteSets, TLC

VARIABLES
    u_pc, uri, u_ret,                 \* isgitsshuri: position, argument, result
    s_pc, host, s_ret, s_err,         \* checksafessh: position, argument, result, error
    b_pc,                             \* updatebookmarks: position
    wlock, lock, tr,                  \* its locals: "None" or the object's name
    b_exc,                            \* the exception in flight, "none" if none
    changes, b_i,                     \* the changes argument, the loop position
    bms, caps,                        \* repo._bookmarks and what it provides
    wlock_held, lock_held, tr_state,  \* the repository's locks and transaction
    released,                         \* release() calls made, per object
    events,                           \* history of the calls made on the repository
    c_pc, c_data, c_frm, c_to, c_ret, \* convert: position, arguments, result
    g_pc, g_d, g_key, g_ret, g_err,   \* get_value: position, arguments, result, error
    h_pc, h_fmt, h_iteritems,         \* .hgsub/.hgsubstate: position, format, runtime
    h_data, h_text, h_parsed,         \* mapping written, its text, mapping read back
    h_text2, h_err                    \* text written again, error raised

vars == <<u_pc, uri, u_ret, s_pc, host, s_ret, s_err,
          b_pc, wlock, lock, tr, b_exc, changes, b_i, bms, caps,
          wlock_held, lock_held, tr_state, released, events,
          c_pc, c_data, c_frm, c_to, c_ret,
          g_pc, g_d, g_key, g_ret, g_err,
          h_pc, h_fmt, h_iteritems, h_data, h_text, h_parsed, h_text2, h_err>>

uvars == <<u_pc, uri, u_ret>>
svars == <<s_pc, host, s_ret, s_err>>
bvars == <<b_pc, wlock, lock, tr, b_exc, changes, b_i, bms, caps,
           wlock_held, lock_held, tr_state, released, events>>
cvars == <<c_pc, c_data, c_frm, c_to, c_ret>>
gvars == <<g_pc, g_d, g_key, g_ret, g_err>>
hvars == <<h_pc, h_fmt, h_iteritems, h_data, h_text, h_parsed, h_text2, h_err>>

(***************************************************************************)
(* Generic string helpers (Python str methods).                            *)
(***************************************************************************)
startswith(s, p) == Len(s) >= Len(p) /\ SubSeq(s, 1, Len(p)) = p

endswith(s, p) == Len(s) >= Len(p) /\ SubSeq(s, Len(s) - Len(p) + 1, Len(s)) = p

Rep(c, n) == [i \in 1..n |-> c]

RECURSIVE Flatten(_)
Flatten(ss) == IF ss = <<>> THEN <<>> ELSE Head(ss) \o Flatten(Tail(ss))

SetMax(S) == CHOOSE x \in S : \A y \in S : y <= x

(***************************************************************************)
(* Character classes of the two regular expressions.  The alphabet is the  *)
(* set of characters the inputs below are built from.                      *)
(***************************************************************************)
Letter == {"a", "b", "c", "g", "h", "i", "o", "p", "s", "t"}
Digit == {"1"}
AlnumHyphen == Letter \cup Digit \cup {"-"}          \* [a-zA-Z0-9-]
HostChar == Letter \cup Digit \cup {"_", ".", ":", "-"}   \* [\w\d\.\:\-]
NL == "\n"

(***************************************************************************)
(* isgitsshuri                                                             *)
(***************************************************************************)
\* The tuple with one scheme left out.
gitschemes_without_http ==
    << <<"g","i","t">>,
       <<"g","i","t","+","s","s","h">>,
       <<"g","i","t","+","h","t","t","p","s">> >>

gitschemes ==
    << <<"g","i","t">>,
       <<"g","i","t","+","s","s","h">>,
       <<"g","i","t","+","h","t","t","p">>,
       <<"g","i","t","+","h","t","t","p","s">> >>

\* for scheme in gitschemes: if uri.startswith('%s://' % scheme)
\* if uri.startswith('http:') or uri.startswith('https:')
HasExplicitScheme(u) ==
    \/ \E k \in 1..Len(gitschemes) : startswith(u, gitschemes[k] \o <<":", "/", "/">>)
    \/ startswith(u, <<"h","t","t","p",":">>)
    \/ startswith(u, <<"h","t","t","p","s",":">>)

NoMatch == [matched |-> FALSE, giturl |-> <<>>, repopath |-> <<>>]

\* Where the prefix (?:.+@)* can stop: nowhere consumed, or just after an '@'
\* that has at least one character before it; '.' does not match a newline.
UserEnds(u) ==
    {0} \cup {p \in 2..Len(u) : u[p] = "@" /\ \A i \in 1..p : u[i] # NL}

\* End of the line that starts at position i ('.*' stops at a newline).
RECURSIVE LineEnd(_, _)
LineEnd(u, i) ==
    IF i > Len(u) \/ u[i] = NL THEN i - 1 ELSE LineEnd(u, i + 1)

\* ([\[]?[\w\d\.\:\-]+[\]]?):(.*) tried at position p+1.  h is the first
\* position of the character run, q its last one; the run is greedy and is
\* given back one character at a time, and ']' is taken when it is there.
HostMatch(u, p) ==
    LET h == IF p + 1 <= Len(u) /\ u[p + 1] = "[" THEN p + 2 ELSE p + 1
        run == {q \in h..Len(u) : \A i \in h..q : u[i] \in HostChar}
        withBr == {q \in run : q + 2 <= Len(u) /\ u[q + 1] = "]" /\ u[q + 2] = ":"}
        plain == {q \in run : q + 1 <= Len(u) /\ u[q + 1] = ":"}
        ok == withBr \cup plain
    IN  IF ok = {} THEN NoMatch
        ELSE LET q == SetMax(ok)
                 colon == IF q \in withBr THEN q + 2 ELSE q + 1
             IN  [matched |-> TRUE,
                  giturl |-> SubSeq(u, p + 1, colon - 1),
                  repopath |-> SubSeq(u, colon + 1, LineEnd(u, colon + 1))]

\* m = re.match(r'(?:.+@)*([\[]?[\w\d\.\:\-]+[\]]?):(.*)', uri): the greedy
\* prefix is tried from the last '@' backwards, then empty.
re_match(u) ==
    LET feas == {p \in UserEnds(u) : HostMatch(u, p).matched}
    IN  IF feas = {} THEN NoMatch ELSE HostMatch(u, SetMax(feas))

LabelMin == 1
LabelMax == 63
TldMin == 2
TldMax == 63
FqdnMin == 4
FqdnMax == 253

\* ((?!-)[a-zA-Z0-9-]{1,63}(?<!-)\.)+[a-zA-Z]{2,63}$ scanned from position i;
\* n counts the labels already matched.
RECURSIVE FqdnScan(_, _, _)
FqdnScan(g, i, n) ==
    LET dots == {j \in i..Len(g) : g[j] = "."}
    IN  IF dots = {}
        THEN /\ n >= 1
             /\ Len(g) - i + 1 >= TldMin
             /\ Len(g) - i + 1 <= TldMax
             /\ \A j \in i..Len(g) : g[j] \in Letter
        ELSE LET d == CHOOSE j \in dots : \A k \in dots : j <= k
             IN  /\ d - i >= LabelMin
                 /\ d - i <= LabelMax
                 /\ \A j \in i..(d - 1) : g[j] \in AlnumHyphen
                 /\ g[i] # "-"
                 /\ g[d - 1] # "-"
                 /\ FqdnScan(g, d + 1, n + 1)

\* The pattern without its length lookahead.
fqdn_match_no_lookahead(g) == FqdnScan(g, 1, 0)

\* The pattern tried on the host with its brackets taken off.
fqdn_match_inside_brackets(g) ==
    LET a == IF g # <<>> /\ g[1] = "[" THEN 2 ELSE 1
        b == IF g # <<>> /\ g[Len(g)] = "]" THEN Len(g) - 1 ELSE Len(g)
    IN  /\ b - a + 1 >= FqdnMin
        /\ b - a + 1 <= FqdnMax
        /\ FqdnScan(SubSeq(g, a, b), 1, 0)

\* re.match(fqdn_re, giturl), with the lookahead (?=^.{4,253}$)
fqdn_match(g) ==
    /\ Len(g) >= FqdnMin
    /\ Len(g) <= FqdnMax
    /\ \A i \in 1..Len(g) : g[i] # NL
    /\ FqdnScan(g, 1, 0)

DotGit == <<".", "g", "i", "t">>

isgitsshuri(u) ==
    IF HasExplicitScheme(u) THEN FALSE
    ELSE LET m == re_match(u)
         IN  IF m.matched
             THEN IF endswith(m.repopath, DotGit) THEN TRUE
                  ELSE IF fqdn_match(m.giturl) THEN TRUE
                  ELSE FALSE
             ELSE FALSE

(***************************************************************************)
(* Location strings the classifier is run on.                              *)
(***************************************************************************)
MaxTok == 3

UriPrefixes ==
    { <<>>,
      <<"g","i","t",":","/","/">>,
      <<"g","i","t","+","s","s","h",":","/","/">>,
      <<"g","i","t","+","h","t","t","p",":","/","/">>,
      <<"g","i","t","+","h","t","t","p","s",":","/","/">>,
      <<"h","t","t","p",":">>,
      <<"h","t","t","p","s",":">>,
      <<"g","i","t",":">>,
      <<"h","t","t","p">> }

UriTokens ==
    { <<"a">>, <<"-">>, <<".">>, <<":">>, <<"@">>, <<"[">>, <<"]">>, <<"/">>,
      <<".","g","i","t">>, <<"c","o">> }

TokenSeqs(max) == UNION {[1..n -> UriTokens] : n \in 0..max}

UriUsers ==
    { <<>>, <<"a","@">>, <<"@">>, <<"a","@","b","@">>, <<"a",":","b","@">>,
      <<"a",NL,"@">> }

UriHosts ==
    { <<>>, <<"a">>, <<"a",".","c","o">>, <<"a",".","c">>, <<"a",".","c","1">>,
      <<"-","a",".","c","o">>, <<"a","-",".","c","o">>, <<"a","-","b",".","c","o">>,
      <<"a",".","b",".","c","o">>, <<"a","_","b",".","c","o">>,
      <<"a",".",".","c","o">>, <<".","c","o">>, <<"1",".","1",".","1",".","1">>,
      <<"[","1",":","a",":",":","1","]">>, <<"[","a",".","c","o","]">>,
      <<"a",".","c","o","]">>, <<"[","a",".","c","o">>, <<"[","a","]","]">> }

UriPaths ==
    { <<>>, <<"a">>, <<"a",".","g","i","t">>, <<".","g","i","t">>, <<"g","i","t">>,
      <<"a",".","g","i","t","/">>, <<"a",NL,".","g","i","t">>,
      <<"a",":","b",".","g","i","t">>, <<"a",".","g","i","t",NL>> }

\* Hosts at the length limits of the FQDN pattern.
LongHosts ==
    {Rep("a", n) \o <<".">> \o Rep("b", m) :
        n \in {LabelMax - 1, LabelMax, LabelMax + 1},
        m \in {TldMin - 1, TldMin, TldMax, TldMax + 1}}
    \cup
    {Rep("a", LabelMax) \o <<".">> \o Rep("a", LabelMax) \o <<".">>
        \o Rep("a", LabelMax) \o <<".">> \o Rep("b", m) :
        m \in {FqdnMax - 3 * (LabelMax + 1) - 1, FqdnMax - 3 * (LabelMax + 1),
               FqdnMax - 3 * (LabelMax + 1) + 1}}

UriInputs(max) ==
    {p \o Flatten(ts) : p \in UriPrefixes, ts \in TokenSeqs(max)}
    \cup {p \o us \o h \o sep \o pa :
            p \in UriPrefixes, us \in UriUsers, h \in UriHosts,
            sep \in {<<>>, <<":">>}, pa \in UriPaths}
    \cup {us \o h \o <<":">> \o pa :
            us \in {<<>>, <<"a","@">>}, h \in LongHosts, pa \in {<<>>, <<"a">>}}

UriInit ==
    /\ u_pc = "call"
    /\ uri \in UriInputs(MaxTok)
    /\ u_ret = FALSE

UriIdle ==
    /\ u_pc = "idle"
    /\ uri = <<>>
    /\ u_ret = FALSE

Classify ==
    /\ u_pc = "call"
    /\ u_ret' = isgitsshuri(uri)
    /\ u_pc' = "done"
    /\ UNCHANGED uri
    /\ UNCHANGED <<svars, bvars, cvars, gvars, hvars>>

(***************************************************************************)
(* C1, C2, C8: what the classifier answers.                                *)
(***************************************************************************)
\* The six explicit prefixes, spelled out.
ExplicitPrefixes ==
    { <<"g","i","t",":","/","/">>,
      <<"g","i","t","+","s","s","h",":","/","/">>,
      <<"g","i","t","+","h","t","t","p",":","/","/">>,
      <<"g","i","t","+","h","t","t","p","s",":","/","/">>,
      <<"h","t","t","p",":">>,
      <<"h","t","t","p","s",":">> }

BeginsExplicit(u) == \E p \in ExplicitPrefixes : startswith(u, p)

\* u has the shape [user@]host:path : some split into an optional prefix ending
\* in '@', a host token (optional '[', one or more host characters, optional
\* ']') and a ':'.
EndpointShape(u) ==
    \E p \in 0..Len(u), c \in 1..Len(u) :
        /\ p = 0 \/ (p >= 2 /\ u[p] = "@" /\ \A i \in 1..p : u[i] # NL)
        /\ u[c] = ":"
        /\ \E a \in (p + 1)..(c - 1), b \in (p + 1)..(c - 1) :
              /\ a <= b
              /\ \A i \in a..b : u[i] \in HostChar
              /\ a = p + 1 \/ (a = p + 2 /\ u[p + 1] = "[")
              /\ b = c - 1 \/ (b = c - 2 /\ u[c - 1] = "]")

\* g is a domain name: dot-separated parts, at least two; the last is 2-63
\* letters, the others are 1-63 alphanumerics or hyphens with no hyphen at
\* either end; 4-253 characters in all.
IsDomainName(g) ==
    LET dots == {j \in 1..Len(g) : g[j] = "."}
        starts == {1} \cup {d + 1 : d \in dots}
        stop(a) == IF \E d \in dots : d >= a
                   THEN (CHOOSE d \in dots : d >= a /\ \A e \in dots : e >= a => d <= e) - 1
                   ELSE Len(g)
    IN  /\ Len(g) \in 4..253
        /\ dots # {}
        /\ \A a \in starts :
              LET b == stop(a)
              IN  IF b = Len(g)
                  THEN /\ b - a + 1 \in 2..63
                       /\ \A i \in a..b : g[i] \in Letter
                  ELSE /\ b - a + 1 \in 1..63
                       /\ \A i \in a..b : g[i] \in Letter \cup Digit \cup {"-"}
                       /\ g[a] # "-"
                       /\ g[b] # "-"

\* C1: without an explicit scheme prefix, isgitsshuri is true exactly when the
\* location has the endpoint shape [user@]host:path and either the extracted
\* path ends with '.git' or the extracted host is a domain name; the extracted
\* host, a ':' and the extracted path are a piece of the location.
C1_Classified ==
    (u_pc = "done" /\ ~BeginsExplicit(uri)) =>
        LET m == re_match(uri)
        IN  /\ m.matched = EndpointShape(uri)
            /\ m.matched =>
                  \E i \in 0..Len(uri) :
                      SubSeq(uri, i + 1, i + Len(m.giturl) + 1 + Len(m.repopath))
                          = m.giturl \o <<":">> \o m.repopath
            /\ u_ret = (/\ EndpointShape(uri)
                        /\ \/ endswith(m.repopath, <<".","g","i","t">>)
                           \/ IsDomainName(m.giturl))

C1_Witness ==
    /\ u_pc = "done"
    /\ ~BeginsExplicit(uri)
    /\ re_match(uri).matched
    /\ ~endswith(re_match(uri).repopath, <<".","g","i","t">>)
    /\ IsDomainName(re_match(uri).giturl)
    /\ Len(re_match(uri).giturl) = 253
    /\ u_ret = TRUE

\* C2: a location that begins with one of the six explicit prefixes is never
\* classified as a git ssh location.
C2_ExplicitSchemeFalse ==
    (u_pc = "done" /\ BeginsExplicit(uri)) => u_ret = FALSE

C2_Witness ==
    /\ u_pc = "done"
    /\ startswith(uri, <<"g","i","t","+","h","t","t","p",":","/","/">>)
    /\ endswith(uri, <<".","g","i","t">>)
    /\ re_match(uri).matched
    /\ IsDomainName(re_match(uri).giturl)
    /\ u_ret = FALSE

Bracketed(g) == g # <<>> /\ (g[1] = "[" \/ g[Len(g)] = "]")

\* C8: when the extracted host token is bracketed, the answer is decided by
\* the '.git' suffix of the extracted path alone.
C8_BracketedHost ==
    (/\ u_pc = "done"
     /\ ~BeginsExplicit(uri)
     /\ re_match(uri).matched
     /\ Bracketed(re_match(uri).giturl)) =>
        u_ret = endswith(re_match(uri).repopath, <<".","g","i","t">>)

C8_Witness ==
    /\ u_pc = "done"
    /\ re_match(uri).matched
    /\ re_match(uri).giturl = <<"[","1",":","a",":",":","1","]">>
    /\ endswith(re_match(uri).repopath, <<".","g","i","t">>)
    /\ u_ret = TRUE

(***************************************************************************)
(* checksafessh                                                            *)
(***************************************************************************)
HexDigit == {"2", "5", "d", "D"}

HexVal(c) == CASE c = "2" -> 2 [] c = "5" -> 5 [] c = "d" -> 13 [] c = "D" -> 13

\* The character a single decoded byte stands for; a byte of 0x80 and above
\* that is not part of a valid UTF-8 sequence decodes to U+FFFD
\* (errors='replace').  No escape over HexDigit yields a continuation byte.
ByteChr(b) ==
    CASE b = 34 -> "\""
      [] b = 37 -> "%"
      [] b = 45 -> "-"
      [] b = 82 -> "R"
      [] b = 85 -> "U"
      [] b = 93 -> "]"
      [] OTHER -> "U+FFFD"

\* No decoding at all.
unquote_skipped(h) == h

\* urllib.parse.unquote(host): every '%' followed by two hex digits becomes
\* the character of that byte, in one pass; any other '%' stays.
RECURSIVE unquote(_)
unquote(h) ==
    IF h = <<>> THEN <<>>
    ELSE IF /\ h[1] = "%"
            /\ Len(h) >= 3
            /\ h[2] \in HexDigit
            /\ h[3] \in HexDigit
         THEN <<ByteChr(16 * HexVal(h[2]) + HexVal(h[3]))>> \o unquote(SubSeq(h, 4, Len(h)))
         ELSE <<h[1]>> \o unquote(Tail(h))

NoError == [raised |-> FALSE, type |-> "", arg |-> <<>>]

MaxHost == 4

HostAlphabet == {"-", "%", "2", "5", "d", "D", "o"}

HostInputs(max) == UNION {[1..n -> HostAlphabet] : n \in 0..max}

SshInit ==
    /\ s_pc = "call"
    /\ host \in HostInputs(MaxHost)
    /\ s_ret = "unset"
    /\ s_err = NoError

SshIdle ==
    /\ s_pc = "idle"
    /\ host = <<>>
    /\ s_ret = "unset"
    /\ s_err = NoError

\* The local name host is rebound to the decoded string; the caller's string is
\* not touched.  Falling off the end returns None.
checksafessh ==
    /\ s_pc = "call"
    /\ LET decoded == unquote(host)
       IN  IF startswith(decoded, <<"-">>)
           THEN /\ s_err' = [raised |-> TRUE, type |-> "Abort", arg |-> decoded]
                /\ s_ret' = "unset"
           ELSE /\ s_err' = NoError
                /\ s_ret' = "None"
    /\ s_pc' = "done"
    /\ UNCHANGED host
    /\ UNCHANGED <<uvars, bvars, cvars, gvars, hvars>>

\* C3: checksafessh raises Abort exactly when the host starts with '-' or with
\* an escaped hyphen ('%2d', '%2D'); the error carries the decoded host, in
\* which the escape is a '-' and a host with no '%' is itself; otherwise the
\* call returns None.
C3_UnsafeHostRejected ==
    s_pc = "done" =>
        LET hyphenFirst ==
                \/ startswith(host, <<"-">>)
                \/ startswith(host, <<"%","2","d">>)
                \/ startswith(host, <<"%","2","D">>)
        IN  /\ s_err.raised = hyphenFirst
            /\ s_err.raised =>
                  /\ s_err.type = "Abort"
                  /\ s_err.arg[1] = "-"
                  /\ s_ret = "unset"
                  /\ (\A i \in 1..Len(host) : host[i] # "%") => s_err.arg = host
                  /\ startswith(host, <<"%">>) =>
                        Tail(s_err.arg) = unquote(SubSeq(host, 4, Len(host)))
            /\ ~s_err.raised => s_ret = "None"

C3_Witness ==
    /\ s_pc = "done"
    /\ host = <<"%","2","d","o">>
    /\ s_err = [raised |-> TRUE, type |-> "Abort", arg |-> <<"-","o">>]

(***************************************************************************)
(* updatebookmarks                                                         *)
(***************************************************************************)
MaxChanges == 2

BmNames == {"master", "dev"}
BmNodes == {"n1"}
Absent == "absent"

BmChanges(max) == UNION {[1..n -> BmNames \X (BmNodes \cup {"None"})] : n \in 0..max}

\* One event of the history: the call, and the repository state it was made in.
Ev(call) == [call |-> call, w |-> wlock_held, l |-> lock_held, t |-> tr_state]

BmInit ==
    /\ b_pc = "wlock"
    /\ wlock = "None" /\ lock = "None" /\ tr = "None"
    /\ b_exc = "none"
    /\ changes \in BmChanges(MaxChanges)
    /\ b_i = 1
    /\ bms \in [BmNames -> BmNodes \cup {Absent}]
    /\ caps \in [applychanges : BOOLEAN, recordchange : BOOLEAN]
    /\ wlock_held = FALSE /\ lock_held = FALSE /\ tr_state = "none"
    /\ released = [wlock |-> 0, lock |-> 0, tr |-> 0]
    /\ events = <<>>

BmIdle ==
    /\ b_pc = "idle"
    /\ wlock = "None" /\ lock = "None" /\ tr = "None"
    /\ b_exc = "none"
    /\ changes = <<>>
    /\ b_i = 1
    /\ bms = [n \in BmNames |-> Absent]
    /\ caps = [applychanges |-> FALSE, recordchange |-> FALSE]
    /\ wlock_held = FALSE /\ lock_held = FALSE /\ tr_state = "none"
    /\ released = [wlock |-> 0, lock |-> 0, tr |-> 0]
    /\ events = <<>>

\* An exception inside the try block: control goes to the finally clause.
Raise(exc) ==
    /\ b_exc' = exc
    /\ b_pc' = "release_tr"

\* wlock = repo.wlock()
repo_wlock ==
    /\ b_pc = "wlock"
    /\ \/ /\ wlock' = "wlock"
          /\ wlock_held' = TRUE
          /\ events' = Append(events, Ev("wlock"))
          /\ b_pc' = "lock"
          /\ UNCHANGED b_exc
       \/ /\ Raise("LockError")
          /\ UNCHANGED <<wlock, wlock_held, events>>
    /\ UNCHANGED <<lock, tr, changes, b_i, bms, caps, lock_held, tr_state, released>>
    /\ UNCHANGED <<uvars, svars, cvars, gvars, hvars>>

\* lock = repo.lock()
repo_lock ==
    /\ b_pc = "lock"
    /\ \/ /\ lock' = "lock"
          /\ lock_held' = TRUE
          /\ events' = Append(events, Ev("lock"))
          /\ b_pc' = "transaction"
          /\ UNCHANGED b_exc
       \/ /\ Raise("LockError")
          /\ UNCHANGED <<lock, lock_held, events>>
    /\ UNCHANGED <<wlock, tr, changes, b_i, bms, caps, wlock_held, tr_state, released>>
    /\ UNCHANGED <<uvars, svars, cvars, gvars, hvars>>

\* tr = repo.transaction(name), then the test for bms.applychanges
repo_transaction ==
    /\ b_pc = "transaction"
    /\ \/ /\ tr' = "tr"
          /\ tr_state' = "open"
          /\ events' = Append(events, Ev("transaction"))
          /\ b_pc' = IF caps.applychanges THEN "applychanges" ELSE "loop"
          /\ UNCHANGED b_exc
       \/ /\ Raise("Abort")
          /\ UNCHANGED <<tr, tr_state, events>>
    /\ UNCHANGED <<wlock, lock, changes, b_i, bms, caps, wlock_held, lock_held, released>>
    /\ UNCHANGED <<uvars, svars, cvars, gvars, hvars>>

\* The store after the changes k..Len(cs): a node of None removes the name.
RECURSIVE ApplyFrom(_, _, _)
ApplyFrom(b, cs, k) ==
    IF k > Len(cs) THEN b
    ELSE ApplyFrom([b EXCEPT ![cs[k][1]] =
                        IF cs[k][2] = "None" THEN Absent ELSE cs[k][2]], cs, k + 1)

\* bms.applychanges(repo, tr, changes)
bms_applychanges ==
    /\ b_pc = "applychanges"
    /\ \/ /\ bms' = ApplyFrom(bms, changes, 1)
          /\ events' = Append(events, Ev("apply"))
          /\ b_pc' = "close"
          /\ UNCHANGED b_exc
       \/ /\ Raise("Abort")
          /\ UNCHANGED <<bms, events>>
    /\ UNCHANGED <<wlock, lock, tr, changes, b_i, caps, wlock_held, lock_held,
                   tr_state, released>>
    /\ UNCHANGED <<uvars, svars, cvars, gvars, hvars>>

\* for name, node in changes: del bms[name] / bms[name] = node
\* del of a name that is not there raises KeyError.
loop_body ==
    /\ b_pc = "loop"
    /\ b_i <= Len(changes)
    /\ LET name == changes[b_i][1]
           node == changes[b_i][2]
       IN  IF node = "None" /\ bms[name] = Absent
           THEN /\ Raise("KeyError")
                /\ UNCHANGED <<bms, events, b_i>>
           ELSE /\ bms' = [bms EXCEPT ![name] = IF node = "None" THEN Absent ELSE node]
                /\ events' = Append(events, Ev("apply"))
                /\ b_i' = b_i + 1
                /\ UNCHANGED <<b_pc, b_exc>>
    /\ UNCHANGED <<wlock, lock, tr, changes, caps, wlock_held, lock_held,
                   tr_state, released>>
    /\ UNCHANGED <<uvars, svars, cvars, gvars, hvars>>

\* bms.recordchange(tr)
bms_recordchange ==
    /\ b_pc = "loop"
    /\ b_i > Len(changes)
    /\ caps.recordchange
    /\ \/ /\ events' = Append(events, Ev("recordchange"))
          /\ b_pc' = "close"
          /\ UNCHANGED b_exc
       \/ /\ Raise("Abort")
          /\ UNCHANGED events
    /\ UNCHANGED <<wlock, lock, tr, changes, b_i, bms, caps, wlock_held, lock_held,
                   tr_state, released>>
    /\ UNCHANGED <<uvars, svars, cvars, gvars, hvars>>

\* bms.write()
bms_write ==
    /\ b_pc = "loop"
    /\ b_i > Len(changes)
    /\ ~caps.recordchange
    /\ \/ /\ events' = Append(events, Ev("write"))
          /\ b_pc' = "close"
          /\ UNCHANGED b_exc
       \/ /\ Raise("Abort")
          /\ UNCHANGED events
    /\ UNCHANGED <<wlock, lock, tr, changes, b_i, bms, caps, wlock_held, lock_held,
                   tr_state, released>>
    /\ UNCHANGED <<uvars, svars, cvars, gvars, hvars>>

\* tr.close() left out: the function goes on to the finally clause.
tr_close_omitted ==
    /\ b_pc = "close"
    /\ b_pc' = "release_tr"
    /\ UNCHANGED <<wlock, lock, tr, b_exc, changes, b_i, bms, caps, wlock_held,
                   lock_held, tr_state, released, events>>
    /\ UNCHANGED <<uvars, svars, cvars, gvars, hvars>>

\* tr.close(): commits, or raises and leaves the transaction open
tr_close ==
    /\ b_pc = "close"
    /\ \/ /\ tr_state' = "committed"
          /\ events' = Append(events, Ev("close"))
          /\ b_pc' = "release_tr"
          /\ UNCHANGED b_exc
       \/ /\ Raise("Abort")
          /\ UNCHANGED <<tr_state, events>>
    /\ UNCHANGED <<wlock, lock, tr, changes, b_i, bms, caps, wlock_held, lock_held,
                   released>>
    /\ UNCHANGED <<uvars, svars, cvars, gvars, hvars>>

\* finally: lockmod.release(tr, lock, wlock) releases, in this order, each
\* argument that is not None.  Releasing an open transaction aborts it;
\* releasing a committed one changes nothing.
release_tr ==
    /\ b_pc = "release_tr"
    /\ IF tr # "None"
       THEN /\ tr_state' = IF tr_state = "open" THEN "aborted" ELSE tr_state
            /\ released' = [released EXCEPT !.tr = @ + 1]
            /\ events' = Append(events, Ev("release_tr"))
       ELSE UNCHANGED <<tr_state, released, events>>
    /\ b_pc' = "release_lock"
    /\ UNCHANGED <<wlock, lock, tr, b_exc, changes, b_i, bms, caps, wlock_held, lock_held>>
    /\ UNCHANGED <<uvars, svars, cvars, gvars, hvars>>

release_lock ==
    /\ b_pc = "release_lock"
    /\ IF lock # "None"
       THEN /\ lock_held' = FALSE
            /\ released' = [released EXCEPT !.lock = @ + 1]
            /\ events' = Append(events, Ev("release_lock"))
       ELSE UNCHANGED <<lock_held, released, events>>
    /\ b_pc' = "release_wlock"
    /\ UNCHANGED <<wlock, lock, tr, b_exc, changes, b_i, bms, caps, wlock_held, tr_state>>
    /\ UNCHANGED <<uvars, svars, cvars, gvars, hvars>>

\* lockmod.release(tr, lock): the working-copy lock is not passed.
release_wlock_omitted ==
    /\ b_pc = "release_wlock"
    /\ b_pc' = "done"
    /\ UNCHANGED <<wlock, lock, tr, b_exc, changes, b_i, bms, caps, wlock_held,
                   lock_held, tr_state, released, events>>
    /\ UNCHANGED <<uvars, svars, cvars, gvars, hvars>>

\* After the last release the function returns, or the exception propagates.
release_wlock ==
    /\ b_pc = "release_wlock"
    /\ IF wlock # "None"
       THEN /\ wlock_held' = FALSE
            /\ released' = [released EXCEPT !.wlock = @ + 1]
            /\ events' = Append(events, Ev("release_wlock"))
       ELSE UNCHANGED <<wlock_held, released, events>>
    /\ b_pc' = "done"
    /\ UNCHANGED <<wlock, lock, tr, b_exc, changes, b_i, bms, caps, lock_held, tr_state>>
    /\ UNCHANGED <<uvars, svars, cvars, gvars, hvars>>

(***************************************************************************)
(* C4, C5: locks and transaction of updatebookmarks.                       *)
(***************************************************************************)
Calls(c) == {i \in 1..Len(events) : events[i].call = c}

Acquired(c) == Calls(c) # {}

\* C4: when updatebookmarks has returned or let a failure through, neither
\* lock is held and the transaction is not open; each of the three that was
\* acquired has been released once, and one that was never acquired has not
\* been released.
C4_ReleasedOnExit ==
    b_pc = "done" =>
        /\ ~wlock_held
        /\ ~lock_held
        /\ tr_state # "open"
        /\ released.wlock = IF Acquired("wlock") THEN 1 ELSE 0
        /\ released.lock = IF Acquired("lock") THEN 1 ELSE 0
        /\ released.tr = IF Acquired("transaction") THEN 1 ELSE 0

C4_Witness ==
    /\ b_pc = "done"
    /\ b_exc = "KeyError"
    /\ Acquired("wlock") /\ Acquired("lock") /\ Acquired("transaction")
    /\ Acquired("apply")
    /\ released = [wlock |-> 1, lock |-> 1, tr |-> 1]
    /\ tr_state = "aborted"

\* C5: the working-copy lock is taken first, then the repository lock, then
\* the transaction is opened, then the changes are applied, each at most once
\* and only with everything before it in place; a run that succeeds commits
\* the transaction while both locks are held, before either is released; a
\* run that fails never commits.
C5_Order ==
    /\ \A i \in 1..Len(events) :
          LET e == events[i]
          IN  /\ e.call = "wlock" => (i = 1 /\ ~e.w /\ ~e.l /\ e.t = "none")
              /\ e.call = "lock" => (i = 2 /\ e.w /\ ~e.l /\ e.t = "none")
              /\ e.call = "transaction" => (i = 3 /\ e.w /\ e.l /\ e.t = "none")
              /\ e.call \in {"apply", "recordchange", "write", "close"} =>
                    (i > 3 /\ e.w /\ e.l /\ e.t = "open")
              /\ e.call \in {"release_lock", "release_wlock"} =>
                    \A j \in Calls("close") : j < i
    /\ (b_pc = "done" /\ b_exc = "none") =>
          /\ tr_state = "committed"
          /\ Cardinality(Calls("close")) = 1
          /\ \A j \in Calls("apply") \cup Calls("recordchange") \cup Calls("write") :
                \A k \in Calls("close") : j < k
          /\ \A k \in Calls("close") :
                /\ \A j \in Calls("release_lock") : k < j
                /\ \A j \in Calls("release_wlock") : k < j
    /\ b_exc # "none" =>
          /\ tr_state # "committed"
          /\ Calls("close") = {}

C5_Witness ==
    /\ b_pc = "done"
    /\ b_exc = "none"
    /\ ~caps.applychanges
    /\ Cardinality(Calls("apply")) = 2
    /\ Acquired("write")
    /\ tr_state = "committed"
    /\ Len(events) = 10

(***************************************************************************)
(* Python values: a record with the kind k and the content v.              *)
(*   str    v = the code points        bytes  v = the bytes                *)
(*   int    v = <<n>>                  none   v = <<>>                     *)
(*   list, tuple   v = the elements                                        *)
(*   dict   v = the entries <<key, value>> in insertion order              *)
(***************************************************************************)
Str(cps) == [k |-> "str", v |-> cps]
Bytes(bs) == [k |-> "bytes", v |-> bs]
PyInt(n) == [k |-> "int", v |-> <<n>>]
None == [k |-> "none", v |-> <<>>]
List(xs) == [k |-> "list", v |-> xs]
Tuple(xs) == [k |-> "tuple", v |-> xs]
Dict(es) == [k |-> "dict", v |-> es]
Error(name) == [k |-> "error", v |-> <<name>>]

\* str.encode('utf-8') / bytes(s, 'utf-8'), for code points below 0x10000
RECURSIVE utf8_encode(_)
utf8_encode(cps) ==
    IF cps = <<>> THEN <<>>
    ELSE LET c == Head(cps)
             first == IF c < 128 THEN <<c>>
                      ELSE IF c < 2048 THEN <<192 + (c \div 64), 128 + (c % 64)>>
                      ELSE <<224 + (c \div 4096), 128 + ((c \div 64) % 64), 128 + (c % 64)>>
         IN  first \o utf8_encode(Tail(cps))

IsCont(b) == b >= 128 /\ b <= 191

\* bytes.decode('utf-8') / str(b, 'utf-8'): the code points, or <<-1>> where
\* the bytes are not valid UTF-8 (UnicodeDecodeError).
RECURSIVE utf8_decode(_)
utf8_decode(bs) ==
    IF bs = <<>> THEN <<>>
    ELSE LET b == bs[1]
             n == IF b < 128 THEN 1
                  ELSE IF b >= 194 /\ b <= 223 /\ Len(bs) >= 2 /\ IsCont(bs[2]) THEN 2
                  ELSE IF /\ b >= 224 /\ b <= 239 /\ Len(bs) >= 3
                          /\ IsCont(bs[2]) /\ IsCont(bs[3])
                          /\ (b = 224 => bs[2] >= 160)
                          /\ (b = 237 => bs[2] <= 159) THEN 3
                  ELSE 0
             c == IF n = 1 THEN b
                  ELSE IF n = 2 THEN (b - 192) * 64 + (bs[2] - 128)
                  ELSE (b - 224) * 4096 + (bs[2] - 128) * 64 + (bs[3] - 128)
             rest == IF n = 0 THEN <<-1>> ELSE utf8_decode(SubSeq(bs, n + 1, Len(bs)))
         IN  IF n = 0 \/ rest = <<-1>> THEN <<-1>> ELSE <<c>> \o rest

\* dict(pairs): a key seen again keeps its place and takes the new value.
RECURSIVE dict_of(_, _)
dict_of(pairs, acc) ==
    IF pairs = <<>> THEN acc
    ELSE LET key == Head(pairs)[1]
             val == Head(pairs)[2]
             at == {i \in 1..Len(acc) : acc[i][1] = key}
         IN  dict_of(Tail(pairs),
                     IF at = {} THEN Append(acc, <<key, val>>)
                     ELSE [acc EXCEPT ![CHOOSE i \in at : TRUE] = <<key, val>>])

(***************************************************************************)
(* convert                                                                 *)
(***************************************************************************)
\* to(data, 'utf-8')
to_utf8(data, to) ==
    IF to = "bytes" THEN Bytes(utf8_encode(data.v))
    ELSE IF utf8_decode(data.v) = <<-1>> THEN Error("UnicodeDecodeError")
    ELSE Str(utf8_decode(data.v))

\* map(convert, ...) calls convert with one argument, so everything below the
\* top level is converted with the defaults frm=str, to=bytes.  The items of
\* a dict are (key, value) tuples.
RECURSIVE convert(_, _, _)
convert(data, frm, to) ==
    IF data.k = frm THEN to_utf8(data, to)
    ELSE IF data.k = "dict"
         THEN Dict(dict_of([i \in 1..Len(data.v) |->
                               convert(Tuple(data.v[i]), "str", "bytes").v], <<>>))
    ELSE IF data.k = "tuple"
         THEN Tuple([i \in 1..Len(data.v) |-> convert(data.v[i], "str", "bytes")])
    ELSE IF data.k = "list"
         THEN List([i \in 1..Len(data.v) |-> convert(data.v[i], "str", "bytes")])
    ELSE data

(***************************************************************************)
(* Value trees convert is run on.                                          *)
(***************************************************************************)
MaxWidth == 2

SeqsUpTo(S, n) == UNION {[1..m -> S] : m \in 0..n}

\* 'a', 'é', b'a', b'\xc3\xa9' (é encoded), b'\xe9' (not UTF-8), 1, None
Leaves ==
    { Str(<<97>>), Str(<<233>>), Bytes(<<97>>), Bytes(<<195, 169>>), Bytes(<<233>>),
      PyInt(1), None }

KeyLeaves == { Str(<<97>>), Str(<<233>>), Bytes(<<97>>), Bytes(<<195, 169>>), PyInt(1) }

Entries(K, V, n) ==
    {es \in SeqsUpTo(K \X V, n) :
        \A i \in 1..Len(es), j \in 1..Len(es) : i # j => es[i][1] # es[j][1]}

Level1(w) ==
    Leaves
    \cup {List(xs) : xs \in SeqsUpTo(Leaves, w)}
    \cup {Tuple(xs) : xs \in SeqsUpTo(Leaves, w)}
    \cup {Dict(es) : es \in Entries(KeyLeaves, Leaves, w)}

Level2(w) ==
    Level1(w)
    \cup {List(<<x>>) : x \in Level1(w)}
    \cup {Tuple(<<x>>) : x \in Level1(w)}
    \cup {Dict(<< <<key, x>> >>) : key \in KeyLeaves, x \in Level1(w)}
    \cup {Dict(<< <<Tuple(<<key>>), x>> >>) : key \in KeyLeaves, x \in Leaves}

Directions == { <<"str", "bytes">>, <<"bytes", "str">> }

ConvInit ==
    /\ c_pc = "call"
    /\ c_data \in Level2(MaxWidth)
    /\ \E d \in Directions : c_frm = d[1] /\ c_to = d[2]
    /\ c_ret = None

ConvIdle ==
    /\ c_pc = "idle"
    /\ c_data = None
    /\ c_frm = "str"
    /\ c_to = "bytes"
    /\ c_ret = None

Convert ==
    /\ c_pc = "call"
    /\ c_ret' = convert(c_data, c_frm, c_to)
    /\ c_pc' = "done"
    /\ UNCHANGED <<c_data, c_frm, c_to>>
    /\ UNCHANGED <<uvars, svars, bvars, gvars, hvars>>

(***************************************************************************)
(* C6, C7: what convert returns.                                           *)
(***************************************************************************)
IsLeaf(x) == x.k \notin {"list", "tuple", "dict"}

\* The tree with every leaf of kind frm converted to kind to, at every depth.
RECURSIVE Normalized(_, _, _)
Normalized(x, frm, to) ==
    IF x.k = frm
    THEN IF to = "bytes" THEN Bytes(utf8_encode(x.v)) ELSE Str(utf8_decode(x.v))
    ELSE IF x.k = "dict"
         THEN Dict([i \in 1..Len(x.v) |->
                     <<Normalized(x.v[i][1], frm, to), Normalized(x.v[i][2], frm, to)>>])
    ELSE IF x.k \in {"list", "tuple"}
         THEN [k |-> x.k, v |-> [i \in 1..Len(x.v) |-> Normalized(x.v[i], frm, to)]]
    ELSE x

\* Every bytes leaf that is to be decoded is valid UTF-8.
RECURSIVE Decodable(_, _)
Decodable(x, frm) ==
    IF x.k = "bytes" THEN frm = "bytes" => utf8_decode(x.v) # <<-1>>
    ELSE IF x.k = "dict"
         THEN \A i \in 1..Len(x.v) : Decodable(x.v[i][1], frm) /\ Decodable(x.v[i][2], frm)
    ELSE IF x.k \in {"list", "tuple"}
         THEN \A i \in 1..Len(x.v) : Decodable(x.v[i], frm)
    ELSE TRUE

\* No mapping of the tree has two keys with the same normalised form.
RECURSIVE KeysStayDistinct(_, _, _)
KeysStayDistinct(x, frm, to) ==
    IF x.k = "dict"
    THEN /\ \A i \in 1..Len(x.v), j \in 1..Len(x.v) :
               i # j => Normalized(x.v[i][1], frm, to) # Normalized(x.v[j][1], frm, to)
         /\ \A i \in 1..Len(x.v) :
               /\ KeysStayDistinct(x.v[i][1], frm, to)
               /\ KeysStayDistinct(x.v[i][2], frm, to)
    ELSE IF x.k \in {"list", "tuple"}
         THEN \A i \in 1..Len(x.v) : KeysStayDistinct(x.v[i], frm, to)
    ELSE TRUE

\* C6: in both directions, convert returns the tree in which every leaf of
\* kind frm, at any depth, as a key, a value or an element, is converted to
\* kind to through UTF-8, and every other leaf is as it was.
C6_EveryLeafConverted ==
    (/\ c_pc = "done"
     /\ Decodable(c_data, c_frm)
     /\ KeysStayDistinct(c_data, c_frm, c_to)) =>
        c_ret = Normalized(c_data, c_frm, c_to)

\* The same containers, lengths and entry counts; the keys of a mapping are
\* the normalised keys of the input mapping.
RECURSIVE SameShape(_, _, _, _)
SameShape(x, y, frm, to) ==
    IF IsLeaf(x) THEN IsLeaf(y)
    ELSE /\ y.k = x.k
         /\ Len(y.v) = Len(x.v)
         /\ IF x.k = "dict"
            THEN /\ {y.v[i][1] : i \in 1..Len(y.v)}
                      = {Normalized(x.v[i][1], frm, to) : i \in 1..Len(x.v)}
                 /\ \A i \in 1..Len(x.v) :
                       /\ SameShape(x.v[i][1], y.v[i][1], frm, to)
                       /\ SameShape(x.v[i][2], y.v[i][2], frm, to)
            ELSE \A i \in 1..Len(x.v) : SameShape(x.v[i], y.v[i], frm, to)

\* C7: convert keeps the structure: the same container kind at every node,
\* sequences of the same length, mappings with the same number of entries
\* and with the normalised input keys as their keys; no two keys are merged.
C7_StructurePreserved ==
    (c_pc = "done" /\ c_ret.k # "error") => SameShape(c_data, c_ret, c_frm, c_to)

(***************************************************************************)
(* get_value                                                               *)
(***************************************************************************)
Missing == [k |-> "missing", v |-> <<>>]

\* d.get(key, None), d a function from the possible keys to a value or Missing
dict_get(d, key) ==
    IF key \in DOMAIN d /\ d[key] # Missing THEN d[key] ELSE None

\* Python's truth value of v
Truthy(v) ==
    CASE v.k = "none" -> FALSE
      [] v.k = "int" -> v.v # <<0>>
      [] OTHER -> v.v # <<>>

\* 'not None' is True, so for a str key the second lookup always runs and
\* replaces v.
get_value(d, key) ==
    LET v1 == dict_get(d, key)
        v == IF key.k = "str" THEN dict_get(d, Bytes(utf8_encode(key.v))) ELSE v1
    IN  IF Truthy(v) THEN [ret |-> v, err |-> "none"]
        ELSE [ret |-> None, err |-> "Exception"]

GvKeys == { Str(<<97>>), Bytes(<<97>>), Str(<<233>>), Bytes(<<195, 169>>), PyInt(1) }

\* 'x', '', 0
GvVals == { Str(<<120>>), Str(<<>>), PyInt(0) }

GetInit ==
    /\ g_pc = "call"
    /\ g_d \in [GvKeys -> GvVals \cup {Missing}]
    /\ g_key \in GvKeys
    /\ g_ret = None
    /\ g_err = "none"

GetIdle ==
    /\ g_pc = "idle"
    /\ g_d = [key \in GvKeys |-> Missing]
    /\ g_key = None
    /\ g_ret = None
    /\ g_err = "none"

GetValue ==
    /\ g_pc = "call"
    /\ g_ret' = get_value(g_d, g_key).ret
    /\ g_err' = get_value(g_d, g_key).err
    /\ g_pc' = "done"
    /\ UNCHANGED <<g_d, g_key>>
    /\ UNCHANGED <<uvars, svars, bvars, cvars, hvars>>

\* C9: get_value returns the value stored under key or, for a text key, under
\* its UTF-8 encoding, and raises exactly when neither entry is there.
C9_LookupEitherForm ==
    g_pc = "done" =>
        LET forms == {g_key} \cup
                     (IF g_key.k = "str" THEN {Bytes(utf8_encode(g_key.v))} ELSE {})
            found == {f \in forms : g_d[f] # Missing}
        IN  /\ (g_err # "none") = (found = {})
            /\ found # {} => \E f \in found : g_ret = g_d[f]

(***************************************************************************)
(* parse_hgsub, serialize_hgsub, parse_hgsubstate, serialize_hgsubstate    *)
(* A mapping is its entries <<name, value>> in insertion order.            *)
(***************************************************************************)
Space == {" ", NL}

\* str.strip()
RECURSIVE lstrip(_)
lstrip(t) == IF t # <<>> /\ Head(t) \in Space THEN lstrip(Tail(t)) ELSE t

RECURSIVE rstrip(_)
rstrip(t) ==
    IF t # <<>> /\ t[Len(t)] \in Space THEN rstrip(SubSeq(t, 1, Len(t) - 1)) ELSE t

strip(t) == rstrip(lstrip(t))

\* str.split(sep, 1): the parts around the first sep, or the string alone
split1(t, sep) ==
    LET at == {i \in 1..Len(t) : t[i] = sep}
    IN  IF at = {} THEN <<t>>
        ELSE LET i == CHOOSE a \in at : \A b \in at : a <= b
             IN  <<SubSeq(t, 1, i - 1), SubSeq(t, i + 1, Len(t))>>

\* str.splitlines()
RECURSIVE splitlines(_)
splitlines(t) ==
    IF t = <<>> THEN <<>>
    ELSE LET parts == split1(t, NL)
         IN  IF Len(parts) = 1 THEN <<t>> ELSE <<parts[1]>> \o splitlines(parts[2])

\* rv[name] = value on an OrderedDict
od_set(rv, name, value) ==
    LET at == {i \in 1..Len(rv) : rv[i][1] = name}
    IN  IF at = {} THEN Append(rv, <<name, value>>)
        ELSE [rv EXCEPT ![CHOOSE i \in at : TRUE] = <<name, value>>]

ParseError == << <<"ValueError">> >>

\* The loop of parse_hgsub (nameFirst, sep '=') and of parse_hgsubstate (value
\* first, sep ' '): blank lines and lines starting with '#' are skipped, the
\* unstripped line is split once, and unpacking one part raises ValueError.
RECURSIVE parse_lines(_, _, _, _)
parse_lines(lines, sep, nameFirst, rv) ==
    IF lines = <<>> THEN rv
    ELSE LET l == Head(lines)
             ls == strip(l)
             parts == split1(l, sep)
         IN  IF ls = <<>> \/ ls[1] = "#"
             THEN parse_lines(Tail(lines), sep, nameFirst, rv)
             ELSE IF Len(parts) # 2 THEN ParseError
             ELSE parse_lines(Tail(lines), sep, nameFirst,
                     IF nameFirst THEN od_set(rv, strip(parts[1]), strip(parts[2]))
                     ELSE od_set(rv, strip(parts[2]), strip(parts[1])))

parse_hgsub(lines) == parse_lines(lines, "=", TRUE, <<>>)

parse_hgsubstate(lines) == parse_lines(lines, " ", FALSE, <<>>)

\* ''.join(['%s = %s\n' % (n, v) for n, v in data.iteritems()])
RECURSIVE serialize_hgsub(_)
serialize_hgsub(data) ==
    IF data = <<>> THEN <<>>
    ELSE Head(data)[1] \o <<" ", "=", " ">> \o Head(data)[2] \o <<NL>>
            \o serialize_hgsub(Tail(data))

Ord(c) == CASE c = NL -> 10 [] c = " " -> 32 [] c = "#" -> 35 [] c = "=" -> 61 [] c = "a" -> 97

\* a < b on str
RECURSIVE str_lt(_, _)
str_lt(a, b) ==
    IF b = <<>> THEN FALSE
    ELSE IF a = <<>> THEN TRUE
    ELSE IF Head(a) # Head(b) THEN Ord(Head(a)) < Ord(Head(b))
    ELSE str_lt(Tail(a), Tail(b))

\* the entries in the order of sorted(data)
RECURSIVE sorted(_)
sorted(data) ==
    IF data = <<>> THEN <<>>
    ELSE LET i == CHOOSE a \in 1..Len(data) :
                     \A b \in 1..Len(data) : a # b => str_lt(data[a][1], data[b][1])
         IN  <<data[i]>> \o sorted([j \in 1..(Len(data) - 1) |->
                                       IF j < i THEN data[j] ELSE data[j + 1]])

\* ''.join(['%s %s\n' % (data[n], n) for n in sorted(data)])
RECURSIVE join_substate(_)
join_substate(es) ==
    IF es = <<>> THEN <<>>
    ELSE Head(es)[2] \o <<" ">> \o Head(es)[1] \o <<NL>> \o join_substate(Tail(es))

serialize_hgsubstate(data) == join_substate(sorted(data))

(***************************************************************************)
(* Mappings written and read back.                                         *)
(***************************************************************************)
MaxStr == 3

SubChars == {"a", "=", "#", " "}

Trimmed(n) ==
    {t \in UNION {[1..m -> SubChars] : m \in 0..n} :
        t = <<>> \/ (t[1] # " " /\ t[Len(t)] # " ")}

SubInputs(max) ==
    {<<>>}
    \cup {<< <<name, value>> >> : name \in Trimmed(max), value \in Trimmed(max)}
    \cup {es \in {<< <<n1, v1>>, <<n2, v2>> >> :
                     n1 \in Trimmed(1), n2 \in Trimmed(1),
                     v1 \in Trimmed(1), v2 \in Trimmed(1)} : es[1][1] # es[2][1]}

\* h_iteritems: whether mappings have the method iteritems (Python 2 dict and
\* OrderedDict have it, Python 3 ones do not).
SubInit ==
    /\ h_pc = "serialize"
    /\ h_fmt \in {"hgsub", "hgsubstate"}
    /\ h_iteritems \in BOOLEAN
    /\ h_data \in SubInputs(MaxStr)
    /\ h_text = <<>>
    /\ h_parsed = <<>>
    /\ h_text2 = <<>>
    /\ h_err = "none"

SubIdle ==
    /\ h_pc = "idle"
    /\ h_fmt = "hgsub"
    /\ h_iteritems = FALSE
    /\ h_data = <<>>
    /\ h_text = <<>>
    /\ h_parsed = <<>>
    /\ h_text2 = <<>>
    /\ h_err = "none"

\* serialize_hgsub(h_data), then of the mapping read back
SerializeHgsub ==
    /\ h_fmt = "hgsub"
    /\ h_pc \in {"serialize", "reserialize"}
    /\ IF ~h_iteritems
       THEN /\ h_err' = "AttributeError"
            /\ h_pc' = "done"
            /\ UNCHANGED <<h_text, h_text2>>
       ELSE /\ IF h_pc = "serialize"
               THEN /\ h_text' = serialize_hgsub(h_data)
                    /\ h_pc' = "parse"
                    /\ UNCHANGED h_text2
               ELSE /\ h_text2' = serialize_hgsub(h_parsed)
                    /\ h_pc' = "done"
                    /\ UNCHANGED h_text
            /\ UNCHANGED h_err
    /\ UNCHANGED <<h_fmt, h_iteritems, h_data, h_parsed>>
    /\ UNCHANGED <<uvars, svars, bvars, cvars, gvars>>

SerializeHgsubstate ==
    /\ h_fmt = "hgsubstate"
    /\ h_pc \in {"serialize", "reserialize"}
    /\ IF h_pc = "serialize"
       THEN /\ h_text' = serialize_hgsubstate(h_data)
            /\ h_pc' = "parse"
            /\ UNCHANGED h_text2
       ELSE /\ h_text2' = serialize_hgsubstate(h_parsed)
            /\ h_pc' = "done"
            /\ UNCHANGED h_text
    /\ UNCHANGED <<h_fmt, h_iteritems, h_data, h_parsed, h_err>>
    /\ UNCHANGED <<uvars, svars, bvars, cvars, gvars>>

\* parse_hgsub(h_text.splitlines())
ParseHgsub ==
    /\ h_fmt = "hgsub"
    /\ h_pc = "parse"
    /\ LET rv == parse_hgsub(splitlines(h_text))
       IN  IF rv = ParseError
           THEN /\ h_err' = "ValueError"
                /\ h_pc' = "done"
                /\ UNCHANGED h_parsed
           ELSE /\ h_parsed' = rv
                /\ h_pc' = "reserialize"
                /\ UNCHANGED h_err
    /\ UNCHANGED <<h_fmt, h_iteritems, h_data, h_text, h_text2>>
    /\ UNCHANGED <<uvars, svars, bvars, cvars, gvars>>

\* parse_hgsubstate(h_text.splitlines())
ParseHgsubstate ==
    /\ h_fmt = "hgsubstate"
    /\ h_pc = "parse"
    /\ LET rv == parse_hgsubstate(splitlines(h_text))
       IN  IF rv = ParseError
           THEN /\ h_err' = "ValueError"
                /\ h_pc' = "done"
                /\ UNCHANGED h_parsed
           ELSE /\ h_parsed' = rv
                /\ h_pc' = "reserialize"
                /\ UNCHANGED h_err
    /\ UNCHANGED <<h_fmt, h_iteritems, h_data, h_text, h_text2>>
    /\ UNCHANGED <<uvars, svars, bvars, cvars, gvars>>

\* C10: for a mapping of trimmed strings, parsing the lines of its
\* serialisation gives the same entries back (in insertion order for .hgsub,
\* in sorted key order for .hgsubstate), and serialising those gives the same
\* text again.
C10_RoundTrip ==
    h_pc = "done" =>
        /\ h_err = "none"
        /\ h_parsed = IF h_fmt = "hgsub" THEN h_data ELSE sorted(h_data)
        /\ h_text2 = h_text

InitUri == UriInit /\ SshIdle /\ BmIdle /\ ConvIdle /\ GetIdle /\ SubIdle
NextUri == Classify
SpecUri == InitUri /\ [][NextUri]_vars

InitSsh == SshInit /\ UriIdle /\ BmIdle /\ ConvIdle /\ GetIdle /\ SubIdle
NextSsh == checksafessh
SpecSsh == InitSsh /\ [][NextSsh]_vars

InitBm == BmInit /\ UriIdle /\ SshIdle /\ ConvIdle /\ GetIdle /\ SubIdle
updatebookmarks ==
    \/ repo_wlock
    \/ repo_lock
    \/ repo_transaction
    \/ bms_applychanges
    \/ loop_body
    \/ bms_recordchange
    \/ bms_write
    \/ tr_close
    \/ release_tr
    \/ release_lock
    \/ release_wlock
NextBm == updatebookmarks
SpecBm == InitBm /\ [][NextBm]_vars

InitConv == ConvInit /\ UriIdle /\ SshIdle /\ BmIdle /\ GetIdle /\ SubIdle
NextConv == Convert
SpecConv == InitConv /\ [][NextConv]_vars

InitGet == GetInit /\ UriIdle /\ SshIdle /\ BmIdle /\ ConvIdle /\ SubIdle
NextGet == GetValue
SpecGet == InitGet /\ [][NextGet]_vars

InitSub == SubInit /\ UriIdle /\ SshIdle /\ BmIdle /\ ConvIdle /\ GetIdle
NextSub ==
    \/ SerializeHgsub
    \/ SerializeHgsubstate
    \/ ParseHgsub
    \/ ParseHgsubstate
SpecSub == InitSub /\ [][NextSub]_vars

Init ==
    \/ InitUri
    \/ InitSsh
    \/ InitBm
    \/ InitConv
    \/ InitGet
    \/ InitSub

Next ==
    \/ NextUri
    \/ NextSsh
    \/ NextBm
    \/ NextConv
    \/ NextGet
    \/ NextSub

Spec == Init /\ [][Next]_vars

====
